---------------------------- MODULE Spec2Model ----------------------------
(***************************************************************************)
(* A model of the EDACC journal watchers: src/app.py (EliteAssistant with  *)
(* SimpleTextToSpeech and MiningData) and src/EDAT.py                      *)
(* (EliteAsteroidTracker).                                                 *)
(*                                                                         *)
(* The module holds several specifications over one set of variables, one  *)
(* per part of the program:                                                *)
(*   SpecTTS      the announcement queue and its worker thread (app.py)    *)
(*   SpecEdatTail EliteAsteroidTracker tailing one growing journal         *)
(*   SpecEdatDir  EliteAsteroidTracker over a directory of two journals    *)
(*   SpecAppTail  EliteAssistant.read_new_lines on one growing journal     *)
(*   SpecAppDir   EliteAssistant.read_new_lines over two journals          *)
(*   SpecMining   process_asteroid (EDAT.py) and handle_mining (app.py)    *)
(*   SpecMessage  handle_message (app.py)                                  *)
(* Each action leaves the variables of the other parts unchanged.          *)
(*                                                                         *)
(* Numbers with a fractional part (proportions, thresholds, Remaining) are *)
(* counted in halves: 61 stands for 30.5, 200 for 100.0.                   *)
(***************************************************************************)
EXTENDS Integers, Sequences, FiniteSets, TLC

(***************************************************************************)
(* Bounds of the model.                                                    *)
(***************************************************************************)
\* how many speak() calls the ingestion loop makes in one behaviour
MaxEnqueued == 3
\* the longest journal, in bytes, when one journal is tailed
MaxFileBytes == 4
\* the longest journal, in bytes, when the directory holds two journals
MaxDirBytes == 2
\* the longest Materials list of a mining event
MaxMaterials == 2
\* The number of speak_text() calls of a run.
MaxThreads == 3
\* The number of turns of the loop of run() before it is left.
MaxTurns == 2

(***************************************************************************)
(* State.                                                                  *)
(***************************************************************************)
\* The journal directory: what the game writes and the watchers read.
VARIABLES
    fsExists,   \* for each journal name, whether the file is in the directory
    fsData,     \* for each journal name, the bytes of the file
    fsMtime     \* for each journal name, its modification time (as a rank)

fsVars == <<fsExists, fsData, fsMtime>>

\* SimpleTextToSpeech (app.py 57-101).
VARIABLES
    queue,      \* self._queue: the list of texts waiting to be spoken
    lock,       \* self._lock: "free", or the thread that holds it
    stop,       \* self._stop: the Event the worker loop tests
    wpc,        \* the worker thread's position in _worker
    text,       \* the worker's local variable text (None is NoText)
    ppc,        \* the ingestion loop's position in speak()
    ptext,      \* the argument of the speak() call in progress
    enqueued,   \* history: the texts appended to the queue, in order
    handed,     \* history: the texts for which the speech call was started
    outcomes,   \* history: for each speech call that ended, "ok" when it
                \* returned and "error" when it raised
    handedAtStop \* history: how many speech calls had been started when
                \* stop() set the stop event

ttsVars == <<queue, lock, stop, wpc, text, ppc, ptext, enqueued, handed,
             outcomes, handedAtStop>>

\* EliteAsteroidTracker: the file cursor and line assembly (EDAT.py 64-67).
VARIABLES
    current_journal_path,   \* self.current_journal_path (None is NoPath)
    tracker_last_position,  \* self.last_position of the tracker
    tracker_last_line,      \* self.last_line of the tracker: the fragment
    tpc,                    \* the monitor loop's position: "find" or "read"
    entries,                \* the lines the last read handed to json.loads
    trackerLines,           \* history: the lines handed to json.loads since
                            \* the tracked path last changed, in order
    speakThreads,           \* the threads speak_text() started, in order:
                            \* the text of each and its position
    sayOrder,               \* history: the threads in the order in which
                            \* they called self.engine.say
    lastRead                \* history: how read_new_journal_entries() went
                            \* in this turn of the monitor loop, "none"
                            \* until it has been called

edatVars == <<current_journal_path, tracker_last_position, tracker_last_line,
              tpc, entries, trackerLines, speakThreads, sayOrder, lastRead>>

\* EliteAssistant: the file cursor (app.py 150-152).
VARIABLES
    current_file,             \* self.current_file (None is NoPath)
    assistant_last_position,  \* self.last_position of the assistant
    assistant_last_line,      \* self.last_line: the last line returned
    lines,                    \* the list the last read_new_lines() returned
    linesRaw,                 \* history: for each line of that list, the
                              \* line as readlines() gave it
    tailStart,                \* history: the size the tracked file had when
                              \* the assistant switched to it
    saveDue,                  \* whether more than 600 seconds have passed
                              \* since self.mining_data.last_save
    loopAt                    \* where the loop of run() is: about to read,
                              \* or sleeping after a tick without lines

appVars == <<current_file, assistant_last_position, assistant_last_line,
             lines, linesRaw, tailStart, saveDue, loopAt>>

\* The handlers of complete lines: process_asteroid (EDAT.py), handle_mining
\* and handle_message (app.py).
VARIABLES
    thresholds, \* config['target_materials'] / self.mining_thresholds
    todo,       \* the lines of this tick that the loop has still to handle
    handled,    \* history: for each line handled, what the handler did
    alive,      \* whether the loop that calls the handlers is still running
    rpc,        \* the position of run(): in its loop, or the step of the
                \* way out that comes next
    runLog      \* history: what run() and shutdown() did, in order

handlerVars == <<thresholds, todo, handled, alive, rpc, runLog>>

vars == <<fsVars, ttsVars, edatVars, appVars, handlerVars>>

(***************************************************************************)
(* The journal directory.                                                  *)
(***************************************************************************)
\* Names that match Journal.*.log (EDAT.py 36, 126-132; app.py 166-167).
Names == {"Journal.1.log", "Journal.2.log"}

\* Bytes of a journal: an ASCII letter, the line feed, the carriage return,
\* and the lead and continuation byte of a two-byte UTF-8 character.
AsciiBytes == {"a", "LF"}
Bytes == {"a", "LF", "CR", "H", "L"}

Existing == {f \in Names : fsExists[f]}

\* Modification times matter only by their order: the ranks of m over the
\* existing files, without gaps.
Rank(m, ex) ==
    [f \in Names |->
        IF ex[f]
          THEN Cardinality({m[g] : g \in {h \in Names : ex[h] /\ m[h] < m[f]}})
          ELSE 0]

\* The newest time in the directory, 0 when it is empty.
NewestTime ==
    IF Existing = {} THEN 0
    ELSE CHOOSE t \in {fsMtime[f] : f \in Existing} :
            \A g \in Existing : fsMtime[g] <= t

\* The game writes byte b at the end of journal f. The write stamps the file
\* with the current time: later than every other file (tie = FALSE), or, at
\* the clock's resolution, equal to the newest other one (tie = TRUE).
EnvAppend(f, b, max, tie) ==
    /\ fsExists[f]
    /\ Len(fsData[f]) < max
    /\ fsData' = [fsData EXCEPT ![f] = Append(@, b)]
    /\ fsMtime' = Rank([fsMtime EXCEPT ![f] =
                          IF tie THEN NewestTime ELSE NewestTime + 1], fsExists)
    /\ UNCHANGED <<fsExists, ttsVars, edatVars, appVars, handlerVars>>

\* The game starts a new, empty journal f.
EnvCreate(f, tie) ==
    /\ ~fsExists[f]
    /\ fsExists' = [fsExists EXCEPT ![f] = TRUE]
    /\ fsData' = [fsData EXCEPT ![f] = <<>>]
    /\ fsMtime' = Rank([fsMtime EXCEPT ![f] =
                          IF tie THEN NewestTime ELSE NewestTime + 1], fsExists')
    /\ UNCHANGED <<ttsVars, edatVars, appVars, handlerVars>>

\* Journal f is removed from the directory.
EnvDelete(f) ==
    /\ fsExists[f]
    /\ fsExists' = [fsExists EXCEPT ![f] = FALSE]
    /\ fsData' = [fsData EXCEPT ![f] = <<>>]
    /\ fsMtime' = Rank(fsMtime, fsExists')
    /\ UNCHANGED <<ttsVars, edatVars, appVars, handlerVars>>

\* The files a newest-first sort by modification time can put first: the
\* sort is stable and the listing order is arbitrary, so any file with the
\* maximal time (EDAT.py 140-141; app.py 172-174).
LatestSet == {f \in Existing : \A g \in Existing : fsMtime[g] <= fsMtime[f]}

(***************************************************************************)
(* Text: decoding bytes and splitting lines.                               *)
(***************************************************************************)
RECURSIVE Decode(_)
\* bytes.decode('utf-8', errors='ignore') (EDAT.py 195): a complete two-byte
\* sequence H L is the character "E"; a lead byte with no continuation byte
\* after it, or a continuation byte with no lead byte before it, is dropped.
Decode(bs) ==
    IF bs = <<>> THEN <<>>
    ELSE IF bs[1] = "H"
      THEN IF Len(bs) >= 2 /\ bs[2] = "L"
             THEN <<"E">> \o Decode(SubSeq(bs, 3, Len(bs)))
             ELSE Decode(Tail(bs))
    ELSE IF bs[1] = "L" THEN Decode(Tail(bs))
    ELSE <<bs[1]>> \o Decode(Tail(bs))

RECURSIVE SplitFrom(_, _)
\* str.splitlines() with the line in progress cur: a line ends at LF, at CR
\* or at CR LF; the terminators are dropped; text after the last terminator
\* is a final line; no empty line is added at the end.
SplitFrom(cs, cur) ==
    IF cs = <<>> THEN (IF cur = <<>> THEN <<>> ELSE <<cur>>)
    ELSE IF cs[1] = "LF" THEN <<cur>> \o SplitFrom(Tail(cs), <<>>)
    ELSE IF cs[1] = "CR"
      THEN <<cur>> \o SplitFrom(IF Len(cs) >= 2 /\ cs[2] = "LF"
                                   THEN SubSeq(cs, 3, Len(cs))
                                   ELSE Tail(cs), <<>>)
    ELSE SplitFrom(Tail(cs), Append(cur, cs[1]))

\* content.splitlines() (EDAT.py 196).
SplitLines(cs) == SplitFrom(cs, <<>>)

\* content.endswith('\n') (EDAT.py 208).
EndsWithNewline(cs) == cs # <<>> /\ cs[Len(cs)] = "LF"

\* The lines for which `line.strip()` is true (EDAT.py 215; app.py 205-206):
\* a line of the model holds no white space, so strip() leaves it as it is.
NonBlank(ls) == SelectSeq(ls, LAMBDA l : l # <<>>)

(***************************************************************************)
(* SimpleTextToSpeech (app.py 57-101).                                     *)
(***************************************************************************)
\* The value of the local variable text when nothing was popped (None).
NoText == ""

\* The texts the ingestion loop passes to speak(): every caller builds the
\* text from a non-empty literal (app.py 257, 330, 340, 342, 349, 380), so
\* speak() is never called with an empty text.
Texts == {"Elite Dangerous Assistant ready", "NPC message: hello"}

\* self._queue.pop(0) taken from the other end: what list.pop() would do.
PopLast(q) == <<q[Len(q)], SubSeq(q, 1, Len(q) - 1)>>

\* self._queue.pop(0): the head, and the list that remains.
PopHead(q) == <<Head(q), Tail(q)>>

InitTTS ==
    /\ queue = <<>>
    /\ lock = "free"
    /\ stop = FALSE
    /\ wpc = "while"
    /\ text = NoText
    /\ ppc = "idle"
    /\ ptext = NoText
    /\ enqueued = <<>>
    /\ handed = <<>>
    /\ outcomes = <<>>
    /\ handedAtStop = 0

\* speak(text), entering `with self._lock` (app.py 68-70).
SpeakAcquire(t) ==
    /\ ppc = "idle"
    /\ ~stop
    /\ Len(enqueued) < MaxEnqueued
    /\ lock = "free"
    /\ lock' = "loop"
    /\ ppc' = "append"
    /\ ptext' = t
    /\ UNCHANGED <<queue, stop, wpc, text, enqueued, handed, outcomes>>
    /\ UNCHANGED handedAtStop
    /\ UNCHANGED <<fsVars, edatVars, appVars, handlerVars>>

\* self._queue.append(text) and leaving the with block (app.py 71-72).
SpeakAppend ==
    /\ ppc = "append"
    /\ queue' = Append(queue, ptext)
    /\ enqueued' = Append(enqueued, ptext)
    /\ lock' = "free"
    /\ ppc' = "idle"
    /\ ptext' = NoText
    /\ UNCHANGED <<stop, wpc, text, handed, outcomes>>
    /\ UNCHANGED handedAtStop
    /\ UNCHANGED <<fsVars, edatVars, appVars, handlerVars>>

\* stop(): self._stop.set() (app.py 97-99), called by the loop's thread from
\* shutdown(), so never while that thread is inside speak().
Stop ==
    /\ ppc = "idle"
    /\ ~stop
    /\ stop' = TRUE
    /\ handedAtStop' = Len(handed)
    /\ UNCHANGED <<queue, lock, wpc, text, ppc, ptext, enqueued, handed, outcomes>>
    /\ UNCHANGED <<fsVars, edatVars, appVars, handlerVars>>

\* The head of the loop as `while True`: the stop event is never tested.
WorkerWhileTrue ==
    /\ wpc = "while"
    /\ wpc' = "lock"
    /\ text' = NoText
    /\ UNCHANGED <<queue, lock, stop, ppc, ptext, enqueued, handed, outcomes>>
    /\ UNCHANGED handedAtStop
    /\ UNCHANGED <<fsVars, edatVars, appVars, handlerVars>>

\* The head of the loop as `while self._queue or not self._stop.is_set()`:
\* the worker empties the queue before it ends.
WorkerWhileDraining ==
    /\ wpc = "while"
    /\ wpc' = IF stop /\ queue = <<>> THEN "done" ELSE "lock"
    /\ text' = NoText
    /\ UNCHANGED <<queue, lock, stop, ppc, ptext, enqueued, handed, outcomes>>
    /\ UNCHANGED handedAtStop
    /\ UNCHANGED <<fsVars, edatVars, appVars, handlerVars>>

\* `while not self._stop.is_set()` and `text = None` (app.py 76-77).
WorkerWhile ==
    /\ wpc = "while"
    /\ wpc' = IF stop THEN "done" ELSE "lock"
    /\ text' = NoText
    /\ UNCHANGED <<queue, lock, stop, ppc, ptext, enqueued, handed, outcomes>>
    /\ UNCHANGED handedAtStop
    /\ UNCHANGED <<fsVars, edatVars, appVars, handlerVars>>

\* `with self._lock` entered by the worker (app.py 78).
WorkerLock ==
    /\ wpc = "lock"
    /\ lock = "free"
    /\ lock' = "worker"
    /\ wpc' = "pop"
    /\ UNCHANGED <<queue, stop, text, ppc, ptext, enqueued, handed, outcomes>>
    /\ UNCHANGED handedAtStop
    /\ UNCHANGED <<fsVars, edatVars, appVars, handlerVars>>

\* The pop with the speech call inside the with block: the lock is still
\* held when the worker goes on.
WorkerPopKeepLock ==
    /\ wpc = "pop"
    /\ IF queue # <<>>
         THEN /\ text' = PopHead(queue)[1]
              /\ queue' = PopHead(queue)[2]
         ELSE UNCHANGED <<text, queue>>
    /\ wpc' = "if"
    /\ UNCHANGED <<lock, stop, ppc, ptext, enqueued, handed, outcomes>>
    /\ UNCHANGED handedAtStop
    /\ UNCHANGED <<fsVars, edatVars, appVars, handlerVars>>

\* The pop as `text = self._queue[0]`: the head is read and stays in the
\* queue.
WorkerPopPeek ==
    /\ wpc = "pop"
    /\ IF queue # <<>>
         THEN /\ text' = Head(queue)
              /\ UNCHANGED queue
         ELSE UNCHANGED <<text, queue>>
    /\ lock' = "free"
    /\ wpc' = "if"
    /\ UNCHANGED <<stop, ppc, ptext, enqueued, handed, outcomes>>
    /\ UNCHANGED handedAtStop
    /\ UNCHANGED <<fsVars, edatVars, appVars, handlerVars>>

\* `if self._queue: text = self._queue.pop(0)` and leaving the with block
\* (app.py 79-80).
WorkerPop ==
    /\ wpc = "pop"
    /\ IF queue # <<>>
         THEN /\ text' = PopHead(queue)[1]
              /\ queue' = PopHead(queue)[2]
         ELSE UNCHANGED <<text, queue>>
    /\ lock' = "free"
    /\ wpc' = "if"
    /\ UNCHANGED <<stop, ppc, ptext, enqueued, handed, outcomes>>
    /\ UNCHANGED handedAtStop
    /\ UNCHANGED <<fsVars, edatVars, appVars, handlerVars>>

\* `if text:` (app.py 82-83, 94): a popped, non-empty text starts the speech
\* call; otherwise the worker sleeps.
WorkerIf ==
    /\ wpc = "if"
    /\ IF text # NoText
         THEN /\ wpc' = "say"
              /\ handed' = Append(handed, text)
         ELSE /\ wpc' = "sleep"
              /\ UNCHANGED handed
    /\ UNCHANGED <<queue, lock, stop, text, ppc, ptext, enqueued, outcomes>>
    /\ UNCHANGED handedAtStop
    /\ UNCHANGED <<fsVars, edatVars, appVars, handlerVars>>

\* The speech call returns (app.py 86-91).
WorkerSayOk ==
    /\ wpc = "say"
    /\ wpc' = "while"
    /\ outcomes' = Append(outcomes, "ok")
    /\ UNCHANGED <<queue, lock, stop, text, ppc, ptext, enqueued, handed>>
    /\ UNCHANGED handedAtStop
    /\ UNCHANGED <<fsVars, edatVars, appVars, handlerVars>>

\* The speech call raises and nothing catches it: the worker thread ends.
WorkerSayFailUncaught ==
    /\ wpc = "say"
    /\ wpc' = "done"
    /\ outcomes' = Append(outcomes, "error")
    /\ UNCHANGED <<queue, lock, stop, text, ppc, ptext, enqueued, handed>>
    /\ UNCHANGED handedAtStop
    /\ UNCHANGED <<fsVars, edatVars, appVars, handlerVars>>

\* The speech call raises; the exception is caught and logged (app.py 92-93).
WorkerSayFail ==
    /\ wpc = "say"
    /\ wpc' = "while"
    /\ outcomes' = Append(outcomes, "error")
    /\ UNCHANGED <<queue, lock, stop, text, ppc, ptext, enqueued, handed>>
    /\ UNCHANGED handedAtStop
    /\ UNCHANGED <<fsVars, edatVars, appVars, handlerVars>>

\* time.sleep(0.1) (app.py 95).
WorkerSleep ==
    /\ wpc = "sleep"
    /\ wpc' = "while"
    /\ UNCHANGED <<queue, lock, stop, text, ppc, ptext, enqueued, handed, outcomes>>
    /\ UNCHANGED handedAtStop
    /\ UNCHANGED <<fsVars, edatVars, appVars, handlerVars>>

(***************************************************************************)
(* EliteAsteroidTracker: the file cursor and line assembly (EDAT.py).      *)
(***************************************************************************)
NoPath == "None"

InitEdat ==
    /\ current_journal_path = NoPath
    /\ tracker_last_position = 0
    /\ tracker_last_line = <<>>
    /\ tpc = "find"
    /\ entries = <<>>
    /\ trackerLines = <<>>
    /\ speakThreads = <<>>
    /\ sayOrder = <<>>
    /\ lastRead = "none"

\* The position find_latest_journal gives a newly found journal of the
\* given size: `self.last_position = 0` (EDAT.py 146).
ResetPosition(size) == 0

\* find_latest_journal() that resets the offset and the fragment on every
\* call, whether or not the path has changed.
FindAlwaysResetting(ok) ==
    /\ tpc = "find"
    /\ IF ~ok \/ Existing = {}
         THEN UNCHANGED <<current_journal_path, tracker_last_position,
                          tracker_last_line, tpc, entries, trackerLines,
                          lastRead>>
         ELSE \E latest \in LatestSet :
                /\ current_journal_path' = latest
                /\ tracker_last_position' = 0
                /\ tracker_last_line' = <<>>
                /\ trackerLines' = <<>>
                /\ tpc' = "read"
                /\ lastRead' = "none"
                /\ UNCHANGED entries
    /\ UNCHANGED <<speakThreads, sayOrder>>
    /\ UNCHANGED <<fsVars, ttsVars, appVars, handlerVars>>

\* find_latest_journal() as the monitor loop calls it (EDAT.py 123-154,
\* 358-361). ok = FALSE: listing the directory or reading a modification
\* time raises, which is caught and gives None. With no journal the loop
\* sleeps and calls it again; otherwise it goes on to read.
FindLatestJournal(ok) ==
    /\ tpc = "find"
    /\ IF ~ok \/ Existing = {}
         THEN UNCHANGED <<current_journal_path, tracker_last_position,
                          tracker_last_line, tpc, entries, trackerLines,
                          lastRead>>
         ELSE \E latest \in LatestSet :
                /\ IF current_journal_path # latest
                     THEN /\ current_journal_path' = latest
                          /\ tracker_last_position' =
                                 ResetPosition(Len(fsData[latest]))
                          /\ tracker_last_line' = <<>>
                          /\ trackerLines' = <<>>
                     ELSE UNCHANGED <<current_journal_path,
                                      tracker_last_position,
                                      tracker_last_line, trackerLines>>
                /\ tpc' = "read"
                /\ lastRead' = "none"
                /\ UNCHANGED entries
    /\ UNCHANGED <<speakThreads, sayOrder>>
    /\ UNCHANGED <<fsVars, ttsVars, appVars, handlerVars>>

\* The list `lines` after the fragment of the last read was put in front of
\* its first line (EDAT.py 203-205).
JoinFragment(frag, ls) ==
    IF frag # <<>> THEN <<frag \o ls[1]>> \o Tail(ls) ELSE ls

\* read_new_journal_entries() that forgets the fragment whenever it returns
\* without new bytes.
ReadDroppingFragment(ok) ==
    /\ tpc = "read"
    /\ tpc' = "find"
    /\ LET path == current_journal_path
           size == Len(fsData[path])
           content == Decode(SubSeq(fsData[path],
                                    tracker_last_position + 1, size))
           split == SplitLines(content)
           joined == JoinFragment(tracker_last_line, split)
           whole == IF EndsWithNewline(content)
                      THEN joined
                      ELSE SubSeq(joined, 1, Len(joined) - 1)
       IN  IF path = NoPath \/ ~fsExists[path] \/ ~ok
                \/ size <= tracker_last_position
             THEN /\ entries' = <<>>
                  /\ lastRead' = IF path = NoPath \/ ~fsExists[path]
                                   THEN "no file"
                                 ELSE IF ~ok THEN "error"
                                 ELSE "nothing new"
                  /\ tracker_last_line' = <<>>
                  /\ UNCHANGED <<tracker_last_position, trackerLines>>
             ELSE /\ tracker_last_position' = size
                  /\ lastRead' = "data"
                  /\ IF split = <<>>
                       THEN /\ entries' = <<>>
                            /\ UNCHANGED <<tracker_last_line, trackerLines>>
                       ELSE /\ tracker_last_line' =
                                  IF EndsWithNewline(content)
                                    THEN <<>>
                                    ELSE joined[Len(joined)]
                            /\ entries' = NonBlank(whole)
                            /\ trackerLines' = trackerLines \o NonBlank(whole)
    /\ UNCHANGED <<current_journal_path, speakThreads, sayOrder>>
    /\ UNCHANGED <<fsVars, ttsVars, appVars, handlerVars>>

\* read_new_journal_entries() and the loop over its result (EDAT.py 156-226,
\* 364-379). ok = FALSE: opening or reading the file fails, which is caught
\* and gives no entries.
ReadNewJournalEntries(ok) ==
    /\ tpc = "read"
    /\ tpc' = "find"
    /\ LET path == current_journal_path
           size == Len(fsData[path])
           content == Decode(SubSeq(fsData[path],
                                    tracker_last_position + 1, size))
           split == SplitLines(content)
           joined == JoinFragment(tracker_last_line, split)
           whole == IF EndsWithNewline(content)
                      THEN joined
                      ELSE SubSeq(joined, 1, Len(joined) - 1)
       IN  IF path = NoPath \/ ~fsExists[path] \/ ~ok
                \/ size <= tracker_last_position
             THEN /\ entries' = <<>>
                  /\ lastRead' = IF path = NoPath \/ ~fsExists[path]
                                   THEN "no file"
                                 ELSE IF ~ok THEN "error"
                                 ELSE "nothing new"
                  /\ UNCHANGED <<tracker_last_position, tracker_last_line,
                                 trackerLines>>
             ELSE /\ tracker_last_position' = size
                  /\ lastRead' = "data"
                  /\ IF split = <<>>
                       THEN /\ entries' = <<>>
                            /\ UNCHANGED <<tracker_last_line, trackerLines>>
                       ELSE /\ tracker_last_line' =
                                  IF EndsWithNewline(content)
                                    THEN <<>>
                                    ELSE joined[Len(joined)]
                            /\ entries' = NonBlank(whole)
                            /\ trackerLines' = trackerLines \o NonBlank(whole)
    /\ UNCHANGED <<current_journal_path, speakThreads, sayOrder>>
    /\ UNCHANGED <<fsVars, ttsVars, appVars, handlerVars>>


(***************************************************************************)
(* EliteAssistant: the file cursor and read_new_lines (app.py 159-214).    *)
(***************************************************************************)
InitApp ==
    /\ current_file = NoPath
    /\ assistant_last_position = 0
    /\ assistant_last_line = <<>>
    /\ lines = <<>>
    /\ linesRaw = <<>>
    /\ tailStart = 0
    /\ saveDue = FALSE
    /\ loopAt = "read"

RECURSIVE ReadLinesFrom(_, _)
\* f.readlines() on a file opened in text mode (app.py 197-199), with the
\* line in progress cur: each line keeps its terminator, which universal
\* newlines turn into a line feed; text after the last terminator is a final
\* line without one.
ReadLinesFrom(cs, cur) ==
    IF cs = <<>> THEN (IF cur = <<>> THEN <<>> ELSE <<cur>>)
    ELSE IF cs[1] = "LF"
      THEN <<Append(cur, "LF")>> \o ReadLinesFrom(Tail(cs), <<>>)
    ELSE IF cs[1] = "CR"
      THEN <<Append(cur, "LF")>>
           \o ReadLinesFrom(IF Len(cs) >= 2 /\ cs[2] = "LF"
                              THEN SubSeq(cs, 3, Len(cs))
                              ELSE Tail(cs), <<>>)
    ELSE ReadLinesFrom(Tail(cs), Append(cur, cs[1]))

ReadLines(cs) == ReadLinesFrom(cs, <<>>)

\* The characters str.strip() removes.
Whitespace == {"LF", "CR"}

RECURSIVE StripLeft(_)
StripLeft(l) ==
    IF l # <<>> /\ l[1] \in Whitespace THEN StripLeft(Tail(l)) ELSE l

RECURSIVE StripRight(_)
StripRight(l) ==
    IF l # <<>> /\ l[Len(l)] \in Whitespace
      THEN StripRight(SubSeq(l, 1, Len(l) - 1))
      ELSE l

\* line.strip() (app.py 205).
Strip(l) == StripRight(StripLeft(l))

RECURSIVE FilterFrom(_, _, _, _)
\* The loop that filters the lines read (app.py 203-209), with the value of
\* self.last_line, the result so far and the raw lines that gave it: a
\* line that is empty once stripped, or equal to the last line kept, is
\* skipped. Gives <<result, raw lines of the result, self.last_line>>.
\* (None, the first value of self.last_line, is <<>> here: it is compared
\* only with lines that are not empty.)
FilterFrom(raw, last, acc, accRaw) ==
    IF raw = <<>> THEN <<acc, accRaw, last>>
    ELSE LET l == Strip(Head(raw))
         IN  IF l = <<>> \/ l = last
               THEN FilterFrom(Tail(raw), last, acc, accRaw)
               ELSE FilterFrom(Tail(raw), l, Append(acc, l),
                               Append(accRaw, Head(raw)))

\* The position given to a journal the assistant switches to, of the given
\* size: os.path.getsize(latest), or 0 when that call raises
\* (app.py 191-194).
StartPosition(size, sizeOk) == IF sizeOk THEN size ELSE 0

\* f.tell() taken as the size of the file whatever the position was.
TellSize(pos, size) == size

\* f.tell() after f.seek(pos) and f.readlines() on a file of the given size
\* (app.py 198-200): the end of the file, or pos itself when the file is
\* shorter than pos.
Tell(pos, size) == IF pos > size THEN pos ELSE size

\* read_new_lines() (app.py 180-214). findOk = FALSE: find_latest_journal
\* catches an error and gives None; sizeOk = FALSE: os.path.getsize raises;
\* openOk = FALSE: opening or reading the file raises, which is caught and
\* gives no lines.
ReadNewLinesStep(findOk, sizeOk, openOk) ==
    /\ IF ~findOk \/ Existing = {}
         THEN /\ lines' = <<>>
              /\ linesRaw' = <<>>
              /\ UNCHANGED <<current_file, assistant_last_position,
                             assistant_last_line, tailStart>>
         ELSE \E latest \in LatestSet :
                LET pos == IF latest # current_file
                             THEN StartPosition(Len(fsData[latest]), sizeOk)
                             ELSE assistant_last_position
                    raw == ReadLines(Decode(SubSeq(fsData[latest], pos + 1,
                                                   Len(fsData[latest]))))
                    kept == FilterFrom(raw, assistant_last_line, <<>>, <<>>)
                IN  /\ current_file' = latest
                    /\ tailStart' = IF latest # current_file
                                      THEN Len(fsData[latest])
                                      ELSE tailStart
                    /\ IF openOk
                         THEN /\ assistant_last_position' =
                                     Tell(pos, Len(fsData[latest]))
                              /\ lines' = kept[1]
                              /\ linesRaw' = kept[2]
                              /\ assistant_last_line' = kept[3]
                         ELSE /\ assistant_last_position' = pos
                              /\ lines' = <<>>
                              /\ linesRaw' = <<>>
                              /\ UNCHANGED assistant_last_line
    /\ UNCHANGED <<fsVars, ttsVars, edatVars, handlerVars>>

\* read_new_lines() called on its own.
ReadNewLines(findOk, sizeOk, openOk) ==
    /\ ReadNewLinesStep(findOk, sizeOk, openOk)
    /\ UNCHANGED <<saveDue, loopAt>>

\* One turn of the loop of run() (app.py 383-414): read_new_lines(); without
\* lines the loop sleeps and starts over; with lines they are handled and
\* then, when the save is due, the mining data are saved and last_save is
\* set to now.
RunTick(findOk, sizeOk, openOk) ==
    /\ loopAt = "read"
    /\ ReadNewLinesStep(findOk, sizeOk, openOk)
    /\ IF lines' = <<>>
         THEN /\ loopAt' = "sleep"
              /\ UNCHANGED saveDue
         ELSE /\ loopAt' = "read"
              /\ saveDue' = FALSE

\* time.sleep(self.poll_interval); continue (app.py 386-388).
RunSleep ==
    /\ loopAt = "sleep"
    /\ loopAt' = "read"
    /\ UNCHANGED <<current_file, assistant_last_position,
                   assistant_last_line, lines, linesRaw, tailStart, saveDue>>
    /\ UNCHANGED <<fsVars, ttsVars, edatVars, handlerVars>>

\* Time passes: more than 600 seconds since the last save (app.py 411-412).
ClockElapses ==
    /\ ~saveDue
    /\ saveDue' = TRUE
    /\ UNCHANGED <<current_file, assistant_last_position,
                   assistant_last_line, lines, linesRaw, tailStart, loopAt>>
    /\ UNCHANGED <<fsVars, ttsVars, edatVars, handlerVars>>

(***************************************************************************)
(* The handlers of complete lines.                                         *)
(***************************************************************************)
\* Material names of journal entries: two that a configuration can name, one
\* that differs from a configured name only in case, and the missing name.
MaterialNames == {"Platinum", "platinum", "Gold", ""}

\* Proportions of a material, in halves: 29.5, 30, 30.5, 31.
Proportions == {59, 60, 61, 62}

Material == [Name : MaterialNames, Proportion : Proportions]

MaterialLists == UNION {[1..n -> Material] : n \in 0..MaxMaterials}

\* The threshold mappings a configuration file can hold (app.py 140-142;
\* EDAT.py 38-42), in halves: whole and fractional thresholds.
ThresholdConfigs ==
    { [n \in {"Platinum"} |-> 60],
      [n \in {"Platinum"} |-> 61],
      [n \in {"Platinum", "Gold"} |-> IF n = "Platinum" THEN 60 ELSE 61] }

\* A complete line of the journal, by what the handlers look at:
\*   literal  the text holds "event":"<event>" written exactly so
\*   strict   json.loads(line) succeeds
\*   object   the decoded value is a JSON object
\*   frag     for a line that is not strict, what the pattern for the
\*            Materials array finds: "none", text json.loads rejects ("bad"),
\*            or the list in Materials ("ok")
\*   part     for a line that is not strict, whether the patterns for From,
\*            Message and Channel each find a non-empty value
\* and the fields of the decoded object, with has... for a field that may
\* be missing.
LineOf(event, literal, strict, object, frag, part, rem, mats, chat) ==
    [event |-> event, literal |-> literal, strict |-> strict,
     object |-> object, frag |-> frag, part |-> part,
     hasRemaining |-> rem[1], Remaining |-> rem[2], Materials |-> mats,
     hasFrom |-> chat[1], From |-> chat[2], Message |-> chat[3],
     hasChannel |-> chat[4], Channel |-> chat[5]]

NoChat == <<FALSE, "", <<>>, FALSE, "">>
NoRemaining == <<FALSE, 0>>

\* Remaining: missing, 80.0 and 100.0.
Remainings == {NoRemaining, <<TRUE, 160>>, <<TRUE, 200>>}

\* ProspectedAsteroid lines that json.loads accepts.
StrictMiningLines ==
    {LineOf("ProspectedAsteroid", lit, TRUE, TRUE, "none", FALSE, rem, mats,
            NoChat) :
        lit \in BOOLEAN, rem \in Remainings, mats \in MaterialLists}

\* ProspectedAsteroid lines that json.loads rejects.
BrokenMiningLines ==
    {LineOf("ProspectedAsteroid", lit, FALSE, FALSE, "ok", FALSE, NoRemaining,
            mats, NoChat) : lit \in BOOLEAN, mats \in MaterialLists}
    \cup
    {LineOf("ProspectedAsteroid", lit, FALSE, FALSE, fr, FALSE, NoRemaining,
            <<>>, NoChat) : lit \in BOOLEAN, fr \in {"none", "bad"}}

\* Lines that are no mining event: another event, and decodable text that
\* is not an object.
OtherLines ==
    {LineOf("Music", TRUE, TRUE, TRUE, "none", FALSE, NoRemaining, <<>>,
            NoChat),
     LineOf("", FALSE, TRUE, FALSE, "none", FALSE, NoRemaining, <<>>, NoChat)}

\* The entry that follows the first one in a tick: a valuable asteroid.
FollowingLines ==
    {LineOf("ProspectedAsteroid", TRUE, TRUE, TRUE, "none", FALSE,
            <<TRUE, 200>>, <<[Name |-> "Platinum", Proportion |-> 62]>>,
            NoChat)}

\* `'"event":"<event>"' in line` (app.py 218, 317).
HasLiteral(line, event) == line.literal /\ line.event = event

\* int(proportion) (app.py 249, 292), for a proportion in halves.
Percent(proportion) == proportion \div 2

\* round(proportion) (EDAT.py 283), for a proportion in halves: Python
\* rounds a half to the even neighbour.
Round(proportion) ==
    IF proportion % 2 = 0 THEN proportion \div 2
    ELSE IF (proportion \div 2) % 2 = 0 THEN proportion \div 2
    ELSE proportion \div 2 + 1

\* The announcement of process_asteroid (EDAT.py 284).
TrackerAnnouncement(m) ==
    m.Name \o " asteroid found with " \o ToString(Round(m.Proportion))
           \o " percent content"

\* The announcement of handle_mining (app.py 257, 300).
AssistantAnnouncement(m) ==
    m.Name \o " found at " \o ToString(Percent(m.Proportion)) \o " percent"

\* The test of process_asteroid with the gate left out.
NoGate(line) == TRUE

\* `remaining = entry.get('Remaining', 0)`, `if remaining < 100.0: return`
\* (EDAT.py 256-258): whether the entry passes.
PassesGate(line) ==
    (IF line.hasRemaining THEN line.Remaining ELSE 0) >= 200

\* Whether process_asteroid takes material m as valuable (EDAT.py 269).
IsValuable(m, thr) == m.Name \in DOMAIN thr /\ m.Proportion >= thr[m.Name]

\* The loop of process_asteroid with the break left out: every valuable
\* material.
AllValuable(mats, thr) == SelectSeq(mats, LAMBDA m : IsValuable(m, thr))

RECURSIVE FirstValuable(_, _)
\* The loop of process_asteroid (EDAT.py 264-285): the materials it records
\* and announces, which is the first valuable one, if any, because of the
\* break.
FirstValuable(mats, thr) ==
    IF mats = <<>> THEN <<>>
    ELSE IF IsValuable(Head(mats), thr) THEN <<Head(mats)>>
    ELSE FirstValuable(Tail(mats), thr)

\* The row record_asteroid adds (EDAT.py 273-280, 297-306). The timestamp,
\* the motherlode flag and the content type are copied from the entry and
\* left out.
TrackerRecord(m, line) ==
    [material |-> m.Name, proportion |-> m.Proportion,
     remaining |-> line.Remaining]

\* process_asteroid(entry) (EDAT.py 249-292):
\* <<announcements, rows recorded, return value>>.
ProcessAsteroid(line, thr) ==
    IF line.event # "ProspectedAsteroid" THEN <<<<>>, <<>>, "None">>
    ELSE IF ~PassesGate(line) THEN <<<<>>, <<>>, "None">>
    ELSE LET found == FirstValuable(line.Materials, thr)
         IN  <<[i \in DOMAIN found |-> TrackerAnnouncement(found[i])],
               [i \in DOMAIN found |-> TrackerRecord(found[i], line)],
               IF found # <<>> THEN "True" ELSE "False">>

\* Whether handle_mining announces material m (app.py 255-256).
MeetsThreshold(m, thr) ==
    m.Name \in DOMAIN thr /\ 2 * Percent(m.Proportion) >= thr[m.Name]

\* The row add_material adds (app.py 262, 110-117); the timestamp is left
\* out.
AssistantRecord(m) ==
    [material |-> m.Name, proportion |-> Percent(m.Proportion)]

\* The loop over the materials in handle_mining (app.py 241-262, 284-305):
\* a material without a name is skipped; every other one is stored, and
\* announced when it meets its threshold. <<announcements, rows stored>>.
MaterialsLoop(mats, thr) ==
    LET named == SelectSeq(mats, LAMBDA m : m.Name # "")
        alerts == SelectSeq(named, LAMBDA m : MeetsThreshold(m, thr))
    IN  <<[i \in DOMAIN alerts |-> AssistantAnnouncement(alerts[i])],
          [i \in DOMAIN named |-> AssistantRecord(named[i])]>>

\* handle_mining(line) (app.py 216-313):
\* <<announcements, rows stored, return value>>.
HandleMining(line, thr) ==
    LET nothing == <<<<>>, <<>>, "False">>
        done == MaterialsLoop(line.Materials, thr)
    IN  IF ~HasLiteral(line, "ProspectedAsteroid") THEN nothing
        ELSE IF line.strict
          THEN IF ~line.object \/ line.event # "ProspectedAsteroid"
                    \/ line.Materials = <<>>
                 THEN nothing
                 ELSE <<done[1], done[2], "True">>
        ELSE IF line.frag = "ok" THEN <<done[1], done[2], "True">>
        ELSE nothing

\* Channel values of ReceiveText lines: the three channels that are
\* announced in several spellings, and two that are not.
Channels == {"squadron", "Squadron", "SQUADRON", "npc", "NPC", "player",
             "Player", "wing", "local"}

\* Messages, as lists of words.
Messages == {<<>>, <<"hello">>, <<"Hand", "over", "your", "CARGO">>}

\* str.lower() on the channel values and the words of the model.
LowerTable ==
    [w \in {"Squadron", "SQUADRON", "NPC", "Player", "Hand", "CARGO"} |->
        CASE w \in {"Squadron", "SQUADRON"} -> "squadron"
          [] w = "NPC" -> "npc"
          [] w = "Player" -> "player"
          [] w = "Hand" -> "hand"
          [] w = "CARGO" -> "cargo"]

\* The channel as it is: what comparing without .lower() would use.
SameCase(w) == w

\* str.lower() (app.py 327, 336, 363).
Lower(w) == IF w \in DOMAIN LowerTable THEN LowerTable[w] ELSE w

RECURSIVE TextOf(_)
\* The message as text: its words with a space between them.
TextOf(words) ==
    IF words = <<>> THEN ""
    ELSE IF Len(words) = 1 THEN words[1]
    ELSE words[1] \o " " \o TextOf(Tail(words))

\* pirate_words (app.py 337), as lists of words.
PirateWords == {<<"cargo">>, <<"surrender">>, <<"let", "me", "see">>,
                <<"hand", "over">>, <<"pirate">>}

\* The keyword test on the message as it is: what testing `word in message`
\* without .lower() would find.
CaseSensitivePirateMessage(words) ==
    \E w \in PirateWords :
      \E k \in 0..(Len(words) - Len(w)) :
         SubSeq(words, k + 1, k + Len(w)) = w

\* `any(word in msg_lower for word in pirate_words)` (app.py 336-339), for
\* messages made of whole words: some pirate word occurs in the lowered
\* message.
IsPirateMessage(words) ==
    LET low == [i \in DOMAIN words |-> Lower(words[i])]
    IN  \E w \in PirateWords :
          \E k \in 0..(Len(low) - Len(w)) :
             SubSeq(low, k + 1, k + Len(w)) = w

\* The chat fields of a line: <<hasFrom, From, Message, hasChannel, Channel>>.
Chats ==
    {<<TRUE, "Jameson", m, TRUE, c>> : m \in Messages, c \in Channels}
    \cup {<<FALSE, "", m, TRUE, c>> : m \in Messages, c \in Channels}
    \cup {<<TRUE, "Jameson", m, FALSE, "">> : m \in Messages}

\* ReceiveText lines that json.loads accepts.
StrictChatLines ==
    {LineOf("ReceiveText", lit, TRUE, TRUE, "none", FALSE, NoRemaining, <<>>,
            chat) : lit \in BOOLEAN, chat \in Chats}

\* ReceiveText lines that json.loads rejects; the patterns can find all three
\* fragments only if the line holds them with non-empty values.
BrokenChatLines ==
    {l \in {LineOf("ReceiveText", lit, FALSE, FALSE, "none", part,
                   NoRemaining, <<>>, chat) :
               lit \in BOOLEAN, part \in BOOLEAN, chat \in Chats} :
        l.part => l.hasFrom /\ l.hasChannel /\ l.Message # <<>>}

\* handle_message(line) (app.py 315-375): <<announcements, return value>>.
HandleMessage(line) ==
    LET nothing == <<<<>>, "False">>
        sender == IF line.hasFrom THEN line.From ELSE "Unknown"
        message == TextOf(line.Message)
        channel == Lower(IF line.hasChannel THEN line.Channel ELSE "")
        squadron == "message from squadron member " \o sender
                        \o " saying: " \o message
    IN  IF ~HasLiteral(line, "ReceiveText") THEN nothing
        ELSE IF line.strict
          THEN IF ~line.object \/ line.event # "ReceiveText" THEN nothing
               ELSE IF channel = "squadron" THEN <<<<squadron>>, "True">>
               ELSE IF channel = "npc"
                 THEN IF IsPirateMessage(line.Message)
                        THEN <<<<"NPC PIRATE MESSAGE: " \o message>>, "True">>
                        ELSE <<<<"NPC message: " \o message>>, "True">>
               ELSE IF channel = "player"
                 THEN <<<<"player message from " \o sender \o " saying: "
                            \o message>>, "True">>
               ELSE nothing
        ELSE IF line.part /\ channel = "squadron"
          THEN <<<<squadron>>, "True">>
        ELSE nothing

InitHandlersIdle ==
    /\ thresholds = <<>>
    /\ todo = <<>>
    /\ handled = <<>>
    /\ alive = TRUE
    /\ rpc = "loop"
    /\ runLog = <<>>

\* The tracker's loop holds the entries of a tick (EDAT.py 364): lines that
\* json.loads accepted.
InitTrackerEntries ==
    /\ thresholds \in ThresholdConfigs
    /\ \E first \in {l \in StrictMiningLines \cup OtherLines :
                        l.literal \/ ~l.object},
          next \in FollowingLines :
          todo = <<[program |-> "EDAT", line |-> first],
                   [program |-> "EDAT", line |-> next]>>
    /\ handled = <<>>
    /\ alive = TRUE
    /\ rpc = "loop"
    /\ runLog = <<>>

\* The assistant's loop holds the lines of a tick (app.py 384).
InitAssistantLines ==
    /\ thresholds \in ThresholdConfigs
    /\ \E first \in StrictMiningLines \cup BrokenMiningLines \cup OtherLines,
          next \in FollowingLines :
          todo = <<[program |-> "app", line |-> first],
                   [program |-> "app", line |-> next]>>
    /\ handled = <<>>
    /\ alive = TRUE
    /\ rpc = "loop"
    /\ runLog = <<>>

\* One turn of `for entry in entries` in monitor_for_valuable_asteroids
\* (EDAT.py 367-372). An entry that is no object makes entry.get raise,
\* which ends the loop (EDAT.py 384-388).
TrackerProcessEntry ==
    /\ alive
    /\ todo # <<>>
    /\ Head(todo).program = "EDAT"
    /\ LET line == Head(todo).line
           out == ProcessAsteroid(line, thresholds)
       IN  IF ~line.object
             THEN /\ alive' = FALSE
                  /\ handled' = Append(handled,
                        [program |-> "EDAT", line |-> line, spoken |-> <<>>,
                         stored |-> <<>>, ret |-> "raised"])
             ELSE /\ alive' = alive
                  /\ handled' = Append(handled,
                        [program |-> "EDAT", line |-> line, spoken |-> out[1],
                         stored |-> out[2], ret |-> out[3]])
    /\ todo' = Tail(todo)
    /\ UNCHANGED <<thresholds, rpc, runLog>>
    /\ UNCHANGED <<fsVars, ttsVars, edatVars, appVars>>

\* The assistant's loop holds the chat lines of a tick (app.py 384).
InitAssistantChat ==
    /\ thresholds \in {[n \in {"Platinum"} |-> 60]}
    /\ \E first \in StrictChatLines \cup BrokenChatLines \cup OtherLines,
          next \in StrictChatLines :
          /\ next.literal /\ next.hasFrom /\ next.Message = <<"hello">>
          /\ next.hasChannel /\ next.Channel \in {"player", "NPC"}
          /\ todo = <<[program |-> "app", line |-> first],
                      [program |-> "app", line |-> next]>>
    /\ handled = <<>>
    /\ alive = TRUE
    /\ rpc = "loop"
    /\ runLog = <<>>

\* One turn of `for line in lines` in run (app.py 390-408):
\* `handled = handle_mining(line) or handle_message(line)`.
RunHandleLine ==
    /\ alive
    /\ todo # <<>>
    /\ Head(todo).program = "app"
    /\ LET line == Head(todo).line
           mining == HandleMining(line, thresholds)
           message == HandleMessage(line)
       IN  handled' = Append(handled,
               IF mining[3] = "True"
                 THEN [program |-> "app", line |-> line, spoken |-> mining[1],
                       stored |-> mining[2], ret |-> "True"]
                 ELSE [program |-> "app", line |-> line,
                       spoken |-> mining[1] \o message[1],
                       stored |-> mining[2], ret |-> message[2]])
    /\ todo' = Tail(todo)
    /\ UNCHANGED <<thresholds, alive, rpc, runLog>>
    /\ UNCHANGED <<fsVars, ttsVars, edatVars, appVars>>

(***************************************************************************)
(* speak_text of EliteAsteroidTracker (EDAT.py 228-247).                   *)
(***************************************************************************)
\* The texts process_asteroid passes to speak_text (EDAT.py 283-284).
TrackerTexts ==
    {TrackerAnnouncement([Name |-> n, Proportion |-> 62]) :
        n \in {"Platinum", "Gold"}}

\* speak_text(text): a new thread is started for the text and the call
\* returns (EDAT.py 235-243).
SpeakText(t) ==
    /\ Len(speakThreads) < MaxThreads
    /\ speakThreads' = Append(speakThreads, [text |-> t, pc |-> "start"])
    /\ UNCHANGED <<current_journal_path, tracker_last_position,
                   tracker_last_line, tpc, entries, trackerLines, sayOrder,
                   lastRead>>
    /\ UNCHANGED <<fsVars, ttsVars, appVars, handlerVars>>

\* Thread i is scheduled and calls self.engine.say(text) and
\* self.engine.runAndWait() (EDAT.py 237-238).
SpeakThreadSay(i) ==
    /\ i \in DOMAIN speakThreads
    /\ speakThreads[i].pc = "start"
    /\ speakThreads' = [speakThreads EXCEPT ![i].pc = "say"]
    /\ sayOrder' = Append(sayOrder, i)
    /\ UNCHANGED <<current_journal_path, tracker_last_position,
                   tracker_last_line, tpc, entries, trackerLines, lastRead>>
    /\ UNCHANGED <<fsVars, ttsVars, appVars, handlerVars>>

\* The speech call of thread i returns or raises; an exception is caught and
\* logged, and the thread ends (EDAT.py 238-240).
SpeakThreadEnd(i) ==
    /\ i \in DOMAIN speakThreads
    /\ speakThreads[i].pc = "say"
    /\ speakThreads' = [speakThreads EXCEPT ![i].pc = "done"]
    /\ UNCHANGED <<current_journal_path, tracker_last_position,
                   tracker_last_line, tpc, entries, trackerLines, sayOrder,
                   lastRead>>
    /\ UNCHANGED <<fsVars, ttsVars, appVars, handlerVars>>

(***************************************************************************)
(* run() and shutdown() of EliteAssistant (app.py 377-427).                *)
(***************************************************************************)
\* One line handled in the loop (app.py 390-408).
RunLine ==
    /\ rpc = "loop"
    /\ ppc = "idle"
    /\ Len(runLog) < MaxTurns
    /\ runLog' = Append(runLog, "line")
    /\ UNCHANGED <<thresholds, todo, handled, alive, rpc>>
    /\ UNCHANGED <<fsVars, ttsVars, edatVars, appVars>>

\* A handler announces something: self.tts.speak(msg) called from the loop
\* (app.py 257, 330, 344, 351).
RunSpeak(t) ==
    /\ rpc = "loop"
    /\ SpeakAcquire(t)

\* The periodic save in the loop (app.py 410-414).
RunPeriodicSave ==
    /\ rpc = "loop"
    /\ ppc = "idle"
    /\ Len(runLog) < MaxTurns
    /\ runLog' = Append(runLog, "periodic save")
    /\ UNCHANGED <<thresholds, todo, handled, alive, rpc>>
    /\ UNCHANGED <<fsVars, ttsVars, edatVars, appVars>>

\* The loop is left by an exception: KeyboardInterrupt, which the except
\* clause logs (app.py 416-417), or one that no clause of run() catches;
\* either way the finally block comes next. When the exception arrives
\* inside speak(), leaving the with block releases the lock, and the text
\* was appended or not.
RunLeaveLoop(kind, appended) ==
    /\ rpc = "loop"
    /\ rpc' = "finally"
    /\ runLog' = Append(runLog, kind)
    /\ IF ppc = "append"
         THEN /\ lock' = "free"
              /\ ppc' = "idle"
              /\ ptext' = NoText
              /\ queue' = IF appended THEN Append(queue, ptext) ELSE queue
              /\ enqueued' = IF appended THEN Append(enqueued, ptext)
                                         ELSE enqueued
         ELSE UNCHANGED <<lock, ppc, ptext, queue, enqueued>>
    /\ UNCHANGED <<stop, wpc, text, handed, outcomes, handedAtStop>>
    /\ UNCHANGED <<thresholds, todo, handled, alive>>
    /\ UNCHANGED <<fsVars, edatVars, appVars>>

\* finally: self.stop_flag.set() (app.py 418-419).
RunFinally ==
    /\ rpc = "finally"
    /\ rpc' = "save"
    /\ runLog' = Append(runLog, "stop_flag.set")
    /\ UNCHANGED <<thresholds, todo, handled, alive>>
    /\ UNCHANGED <<fsVars, ttsVars, edatVars, appVars>>

\* shutdown() without its save: it goes straight on to self.tts.stop().
ShutdownSkipSave ==
    /\ rpc = "save"
    /\ rpc' = "tts.stop"
    /\ UNCHANGED <<thresholds, todo, handled, alive, runLog>>
    /\ UNCHANGED <<fsVars, ttsVars, edatVars, appVars>>

\* shutdown(): self.mining_data.save() (app.py 425, 119-125); a failure to
\* write is caught and logged inside save().
ShutdownSave ==
    /\ rpc = "save"
    /\ rpc' = "tts.stop"
    /\ runLog' = Append(runLog, "save")
    /\ UNCHANGED <<thresholds, todo, handled, alive>>
    /\ UNCHANGED <<fsVars, ttsVars, edatVars, appVars>>

\* shutdown(): self.tts.stop() sets the stop event (app.py 426, 99).
ShutdownStop ==
    /\ rpc = "tts.stop"
    /\ Stop

\* self._thread.join(timeout=1.0) returns (app.py 100-101): the worker has
\* ended, or the second has passed.
ShutdownJoin ==
    /\ rpc = "tts.stop"
    /\ stop
    /\ rpc' = "exited"
    /\ runLog' = Append(runLog, "join")
    /\ UNCHANGED <<thresholds, todo, handled, alive>>
    /\ UNCHANGED <<fsVars, ttsVars, edatVars, appVars>>

(***************************************************************************)
(* Specifications.                                                         *)
(***************************************************************************)
\* One journal, already in the directory and empty, which the game extends.
InitOneJournal ==
    /\ fsExists = [f \in Names |-> f = "Journal.1.log"]
    /\ fsData = [f \in Names |-> <<>>]
    /\ fsMtime = [f \in Names |-> 0]

\* An empty directory.
InitNoJournal ==
    /\ fsExists = [f \in Names |-> FALSE]
    /\ fsData = [f \in Names |-> <<>>]
    /\ fsMtime = [f \in Names |-> 0]

\* The state after construction, with one empty journal in the directory.
InitTail == InitOneJournal /\ InitTTS /\ InitEdat /\ InitApp /\ InitHandlersIdle

\* The state after construction, with an empty directory.
InitDir == InitNoJournal /\ InitTTS /\ InitEdat /\ InitApp /\ InitHandlersIdle

\* The announcement queue and its worker.
TTSNext ==
    \/ \E t \in Texts : SpeakAcquire(t)
    \/ SpeakAppend
    \/ Stop
    \/ WorkerWhile
    \/ WorkerLock
    \/ WorkerPop
    \/ WorkerIf
    \/ WorkerSayOk
    \/ WorkerSayFail
    \/ WorkerSleep

SpecTTS == InitDir /\ [][TTSNext]_vars

\* The same with the threads scheduled fairly: a thread that can take its
\* next step takes it, and a speech call in progress returns or raises.
SpecTTSFair ==
    /\ InitDir
    /\ [][TTSNext]_vars
    /\ WF_vars(SpeakAppend)
    /\ WF_vars(WorkerWhile)
    /\ WF_vars(WorkerLock)
    /\ WF_vars(WorkerPop)
    /\ WF_vars(WorkerIf)
    /\ WF_vars(WorkerSayOk \/ WorkerSayFail)
    /\ WF_vars(WorkerSleep)

RunNext ==
    \/ RunLine
    \/ \E t \in Texts : RunSpeak(t)
    \/ SpeakAppend
    \/ RunPeriodicSave
    \/ \E kind \in {"KeyboardInterrupt", "other exception"},
          appended \in BOOLEAN : RunLeaveLoop(kind, appended)
    \/ RunFinally
    \/ ShutdownSave
    \/ ShutdownStop
    \/ ShutdownJoin
    \/ WorkerWhile
    \/ WorkerLock
    \/ WorkerPop
    \/ WorkerIf
    \/ WorkerSayOk
    \/ WorkerSayFail
    \/ WorkerSleep

\* The loop of run(), the way out of it, and the worker thread.
SpecRun == InitDir /\ [][RunNext]_vars

EdatSpeakNext ==
    \/ \E t \in TrackerTexts : SpeakText(t)
    \/ \E i \in 1..MaxThreads : SpeakThreadSay(i)
    \/ \E i \in 1..MaxThreads : SpeakThreadEnd(i)

\* The tracker's announcements and the threads that speak them.
SpecEdatSpeak == InitDir /\ [][EdatSpeakNext]_vars

\* The game appends any bytes to the one journal.
TailAppend == \E b \in Bytes : EnvAppend("Journal.1.log", b, MaxFileBytes, FALSE)

\* The game appends ASCII text to the one journal.
TailAppendAscii ==
    \E b \in AsciiBytes : EnvAppend("Journal.1.log", b, MaxFileBytes, FALSE)

\* The game creates, extends and removes journals.
DirCreate == \E f \in Names, tie \in BOOLEAN : EnvCreate(f, tie)
DirAppend ==
    \E f \in Names, b \in AsciiBytes, tie \in BOOLEAN :
        EnvAppend(f, b, MaxDirBytes, tie)
DirDelete == \E f \in Names : EnvDelete(f)

EdatTailNext ==
    \/ TailAppend
    \/ \E ok \in BOOLEAN : FindLatestJournal(ok)
    \/ \E ok \in BOOLEAN : ReadNewJournalEntries(ok)

\* The tracker tailing one journal that grows by arbitrary bytes.
SpecEdatTail == InitTail /\ [][EdatTailNext]_vars

EdatDirNext ==
    \/ DirCreate
    \/ DirAppend
    \/ DirDelete
    \/ \E ok \in BOOLEAN : FindLatestJournal(ok)
    \/ \E ok \in BOOLEAN : ReadNewJournalEntries(ok)

\* The tracker over a directory in which journals come and go.
SpecEdatDir == InitDir /\ [][EdatDirNext]_vars

AppTailNext ==
    \/ TailAppendAscii
    \/ \E findOk, sizeOk, openOk \in BOOLEAN :
           ReadNewLines(findOk, sizeOk, openOk)

\* The assistant tailing one journal that grows by ASCII text.
SpecAppTail == InitTail /\ [][AppTailNext]_vars

AppDirNext ==
    \/ DirCreate
    \/ DirAppend
    \/ DirDelete
    \/ \E findOk, sizeOk, openOk \in BOOLEAN :
           ReadNewLines(findOk, sizeOk, openOk)

\* The game extends the first journal only; the second one, when it is
\* there, stays empty.
DirAppendFirst ==
    \E b \in AsciiBytes, tie \in BOOLEAN :
        EnvAppend("Journal.1.log", b, MaxDirBytes, tie)

FlushNext ==
    \/ TailAppendAscii
    \/ ClockElapses
    \/ \E findOk, sizeOk, openOk \in BOOLEAN :
           RunTick(findOk, sizeOk, openOk)
    \/ RunSleep

\* The loop of run() over one journal, with its periodic save; the loop's
\* thread keeps running.
SpecFlush ==
    /\ InitTail
    /\ [][FlushNext]_vars
    /\ WF_vars(\E findOk, sizeOk, openOk \in BOOLEAN :
                   RunTick(findOk, sizeOk, openOk))
    /\ WF_vars(RunSleep)

BothDirNext ==
    \/ DirCreate
    \/ DirAppendFirst
    \/ DirDelete
    \/ \E ok \in BOOLEAN : FindLatestJournal(ok)
    \/ \E ok \in BOOLEAN : ReadNewJournalEntries(ok)
    \/ \E findOk, sizeOk, openOk \in BOOLEAN :
           ReadNewLines(findOk, sizeOk, openOk)

\* Both readers over the same directory in which journals come and go.
SpecBothDir == InitDir /\ [][BothDirNext]_vars

\* The assistant over a directory in which journals come and go.
SpecAppDir == InitDir /\ [][AppDirNext]_vars

MiningNext ==
    \/ TrackerProcessEntry
    \/ RunHandleLine

InitMining ==
    /\ InitNoJournal /\ InitTTS /\ InitEdat /\ InitApp
    /\ (InitTrackerEntries \/ InitAssistantLines)

\* Both programs handling the mining lines of a tick.
SpecMining == InitMining /\ [][MiningNext]_vars

InitMessage ==
    /\ InitNoJournal /\ InitTTS /\ InitEdat /\ InitApp
    /\ InitAssistantChat

\* The assistant handling the chat lines of a tick.
SpecMessage == InitMessage /\ [][RunHandleLine]_vars

(***************************************************************************)
(* Claims about SimpleTextToSpeech.                                        *)
(***************************************************************************)
IsPrefix(s, t) == Len(s) <= Len(t) /\ \A i \in 1..Len(s) : s[i] = t[i]

\* C1: under every interleaving of speak() calls by the loop and pops by the
\* worker, the texts handed to the speech engine are, in order, a prefix of
\* the texts enqueued: nothing is reordered, duplicated or skipped.
C1_SpokenIsPrefixOfEnqueued == IsPrefix(handed, enqueued)

\* C1 witness: two different texts were handed over while the loop is in the
\* middle of a further speak() call.
C1_Witness ==
    /\ Len(handed) = 2
    /\ handed[1] # handed[2]
    /\ ppc = "append"

(***************************************************************************)
(* Claims about the readers.                                               *)
(***************************************************************************)
\* C2: split-invariance of line assembly in read_new_journal_entries: once
\* the tracker has consumed a journal that ends in a line feed, the lines it
\* handed on over all its reads are the lines of the whole text, wherever
\* the boundaries between the reads fell.
C2_SplitInvariance ==
    LET path == current_journal_path
    IN  (/\ path # NoPath
         /\ tpc = "find"
         /\ tracker_last_position = Len(fsData[path])
         /\ fsData[path] # <<>>
         /\ fsData[path][Len(fsData[path])] = "LF")
        => trackerLines = NonBlank(SplitLines(Decode(fsData[path])))

\* C3: in both readers the unterminated tail of what a tick read is never
\* forwarded in that tick. For read_new_lines on the file it already tracks:
\* every line a call returns was read with its line terminator.
C3_NoFragmentForwarded ==
    [][(current_file' = current_file /\ linesRaw' # linesRaw)
         => \A i \in DOMAIN linesRaw' :
               linesRaw'[i][Len(linesRaw'[i])] = "LF"]_vars

\* C4: whenever read_new_lines switches to another file it starts at that
\* file's current size, so the call that switches returns no line: every
\* line it could return was in the file before the switch was detected.
C4_SwitchStartsAtEnd ==
    [][current_file' # current_file => lines' = <<>>]_vars

\* C5: when find_latest_journal resolves a file other than the tracked one,
\* the offset becomes the current size of that file, not zero, and the
\* pending fragment is cleared.
C5_SwitchStartsAtEnd ==
    [][current_journal_path' # current_journal_path
         => /\ tracker_last_position' = Len(fsData'[current_journal_path'])
            /\ tracker_last_line' = <<>>]_vars

(***************************************************************************)
(* Claims about the mining handlers.                                       *)
(***************************************************************************)
\* A material meets its configured threshold, as the specification states
\* it: the name is a key of the mapping and the proportion, as given, is at
\* least the threshold.
Qualifies(m) == m.Name \in DOMAIN thresholds /\ m.Proportion >= thresholds[m.Name]

\* handle_mining's test of a material: it has a name that is a key of the
\* mapping and its proportion, cut to a whole number, is at least the
\* threshold.
QualifiesWhole(m) ==
    /\ m.Name # ""
    /\ m.Name \in DOMAIN thresholds
    /\ 2 * (m.Proportion \div 2) >= thresholds[m.Name]

\* The handled line h is an intact asteroid for the tracker.
FullRemaining(h) == h.line.hasRemaining /\ h.line.Remaining >= 200

\* The announcement of the handled line h, if any, is for the first material
\* of its list that meets its threshold.
AnnouncesFirst(h) ==
    LET mats == h.line.Materials
    IN  /\ Len(h.spoken) <= 1
        /\ h.spoken # <<>> =>
             \E k \in DOMAIN mats :
                /\ Qualifies(mats[k])
                /\ \A j \in 1..(k - 1) : ~Qualifies(mats[j])
                /\ h.spoken[1] = mats[k].Name \o " asteroid found with "
                                   \o ToString(Round(mats[k].Proportion))
                                   \o " percent content"

\* The announcements of the handled line h are, in list order, one for each
\* material that meets handle_mining's test.
AnnouncesEach(h) ==
    LET mats == h.line.Materials
        idx == {k \in DOMAIN mats : QualifiesWhole(mats[k])}
    IN  IF h.ret = "True"
          THEN /\ Len(h.spoken) = Cardinality(idx)
               /\ \A k \in idx :
                    h.spoken[Cardinality({j \in idx : j <= k})]
                      = mats[k].Name \o " found at "
                          \o ToString(mats[k].Proportion \div 2) \o " percent"
          ELSE h.spoken = <<>>

Observed(h) ==
    IF h.program = "EDAT"
      THEN h.line.object /\ h.line.event = "ProspectedAsteroid"
           /\ FullRemaining(h)
      ELSE h.line.strict /\ h.ret = "True"

\* C7: for a mining observation that passes the Remaining gate, an
\* announcement is produced exactly when some material's name is a key of
\* the thresholds and its proportion, as given, is at least its threshold,
\* in both programs and for whole and fractional thresholds.
C7_AnnouncesIffAtThreshold ==
    \A i \in DOMAIN handled :
        Observed(handled[i]) =>
            (handled[i].spoken # <<>>
                <=> \E k \in DOMAIN handled[i].line.Materials :
                        Qualifies(handled[i].line.Materials[k]))

\* C8: in process_asteroid a ProspectedAsteroid event whose Remaining is
\* below 100.0 or missing gives no announcement and no record, raises
\* nothing and leaves the loop running; one with Remaining >= 100.0 is
\* evaluated against the thresholds.
C8_RemainingGate ==
    \A i \in DOMAIN handled :
        LET h == handled[i]
        IN  (h.program = "EDAT" /\ h.line.object
                /\ h.line.event = "ProspectedAsteroid")
            => IF FullRemaining(h)
                 THEN h.spoken # <<>>
                        <=> \E k \in DOMAIN h.line.Materials :
                                Qualifies(h.line.Materials[k])
                 ELSE /\ h.spoken = <<>>
                      /\ h.stored = <<>>
                      /\ h.ret = "None"
                      /\ alive
                      /\ Len(handled) + Len(todo) = 2

\* C8 witness: an asteroid with Remaining 80.0 and a material above its
\* threshold was handled, and the entry after it was handled and announced.
C8_Witness ==
    /\ Len(handled) = 2
    /\ handled[1].program = "EDAT"
    /\ handled[1].line.event = "ProspectedAsteroid"
    /\ handled[1].line.hasRemaining
    /\ handled[1].line.Remaining = 160
    /\ \E k \in DOMAIN handled[1].line.Materials :
            Qualifies(handled[1].line.Materials[k])
    /\ handled[2].spoken # <<>>

\* The handled line h is a mining event with a named material that its
\* program took as a mining event.
Classified(h) ==
    /\ \E k \in DOMAIN h.line.Materials : h.line.Materials[k].Name # ""
    /\ IF h.program = "EDAT"
         THEN h.line.object /\ h.line.event = "ProspectedAsteroid"
         ELSE h.ret = "True"

\* C9: every mining observation that is classified is stored, whether or not
\* it is announced, and nothing else is stored.
C9_EveryObservationStored ==
    \A i \in DOMAIN handled :
        /\ Classified(handled[i]) => handled[i].stored # <<>>
        /\ handled[i].line.event # "ProspectedAsteroid"
             => handled[i].stored = <<>>

(***************************************************************************)
(* Claims about handle_message.                                            *)
(***************************************************************************)
\* What the handled line h must have announced as a ReceiveText event whose
\* channel, compared without regard to case, is squadron, npc or player;
\* nothing for any other or missing channel.
AnnouncedByChannel(h) ==
    LET l == h.line
        sender == IF l.hasFrom THEN l.From ELSE "Unknown"
        channel == IF l.hasChannel THEN l.Channel ELSE ""
    IN  IF channel \in {"squadron", "Squadron", "SQUADRON"}
          THEN h.spoken = <<"message from squadron member " \o sender
                              \o " saying: " \o TextOf(l.Message)>>
        ELSE IF channel \in {"npc", "NPC"}
          THEN /\ Len(h.spoken) = 1
               /\ h.spoken[1] \in {"NPC message: " \o TextOf(l.Message),
                                   "NPC PIRATE MESSAGE: " \o TextOf(l.Message)}
        ELSE IF channel \in {"player", "Player"}
          THEN h.spoken = <<"player message from " \o sender
                              \o " saying: " \o TextOf(l.Message)>>
        ELSE h.spoken = <<>>

\* C10 as stated: every strictly decodable ReceiveText event whose channel is
\* squadron, npc or player in any case gives exactly one announcement with
\* the channel's wording; any other or missing channel gives none.
C10_EveryDecodableMessage ==
    \A i \in DOMAIN handled :
        (handled[i].line.strict /\ handled[i].line.object
            /\ handled[i].line.event = "ReceiveText")
        => AnnouncedByChannel(handled[i])

\* C10 as amended: the same, for the strictly decodable ReceiveText events
\* whose line holds the text "event":"ReceiveText" written exactly so, which
\* handle_message looks for before it decodes the line.
C10_EveryLiteralMessage ==
    \A i \in DOMAIN handled :
        (handled[i].line.strict /\ handled[i].line.object
            /\ handled[i].line.event = "ReceiveText"
            /\ handled[i].line.literal)
        => AnnouncedByChannel(handled[i])

\* C10 witness: a ReceiveText line on the channel "Squadron" was handled and
\* announced, and so was the line after it.
C10_Witness ==
    /\ Len(handled) = 2
    /\ handled[1].line.strict
    /\ handled[1].line.literal
    /\ handled[1].line.event = "ReceiveText"
    /\ handled[1].line.hasChannel
    /\ handled[1].line.Channel = "Squadron"
    /\ Len(handled[1].spoken) = 1
    /\ Len(handled[2].spoken) = 1

\* Whether a hostile keyword occurs in the message of line l, compared
\* without regard to case.
HasHostileKeyword(l) ==
    \/ \E i \in DOMAIN l.Message :
          l.Message[i] \in {"cargo", "CARGO", "surrender", "pirate"}
    \/ \E i \in 1..(Len(l.Message) - 1) :
          /\ l.Message[i] \in {"hand", "Hand"}
          /\ l.Message[i + 1] = "over"

\* Whether handle_message decoded the handled line h as a ReceiveText event
\* on the NPC channel.
DecodedAsNpc(h) ==
    /\ h.program = "app"
    /\ h.line.literal /\ h.line.strict /\ h.line.object
    /\ h.line.event = "ReceiveText"
    /\ h.line.hasChannel /\ h.line.Channel \in {"npc", "NPC"}

StrictTwin(l) == [l EXCEPT !.strict = TRUE, !.object = TRUE]

\* C12: a line that fails strict decoding, but from which the fallback
\* extracts From, Message and Channel (chat) or Materials (mining), gives
\* the announcements and the stored rows that a strictly decodable line with
\* the same field values gives, for every channel and every materials list.
C12_FallbackEquivalence ==
    \A i \in DOMAIN handled :
        LET h == handled[i]
            l == h.line
        IN  (h.program = "app" /\ ~l.strict)
            => /\ (l.event = "ReceiveText" /\ l.part)
                    => h.spoken = HandleMessage(StrictTwin(l))[1]
               /\ (l.event = "ProspectedAsteroid" /\ l.frag = "ok")
                    => /\ h.spoken
                            = HandleMining(StrictTwin(l), thresholds)[1]
                       /\ h.stored
                            = HandleMining(StrictTwin(l), thresholds)[2]

(***************************************************************************)
(* Claims about the worker thread of SimpleTextToSpeech.                   *)
(***************************************************************************)
\* C13: a speech call that fails does not end the worker: as long as stop()
\* is not called, every text enqueued, before or after the failing one, is
\* in its turn dequeued and handed to the speech call.
C13_EveryTextAttempted ==
    \A k \in 1..MaxEnqueued :
        (Len(enqueued) >= k) ~> (Len(handed) >= k \/ stop)

\* C13 witness: the first speech call raised, and the worker went on to
\* hand over the text enqueued after it.
C13_Witness ==
    /\ Len(outcomes) >= 1
    /\ outcomes[1] = "error"
    /\ Len(handed) = 2
    /\ ~stop

\* C14: the worker does not hold the queue lock while a speech call is in
\* progress (it holds it only for the pop), and what speak() appended is at
\* the tail: the queue is the enqueued texts not yet popped, in order.
C14_LockFreeWhileSpeaking ==
    /\ (lock = "worker") <=> (wpc = "pop")
    /\ (wpc = "say") => (lock # "worker")
    /\ Len(queue) <= Len(enqueued)
    /\ queue = SubSeq(enqueued, Len(enqueued) - Len(queue) + 1, Len(enqueued))

\* C14 witness: speak() is inside its with block, about to append, while a
\* speech call is in progress.
C14_Witness == wpc = "say" /\ ppc = "append" /\ lock = "loop"

\* C15: once stop() has set the stop event, the worker leaves its loop,
\* whether or not the queue still holds texts.
C15_WorkerTerminates == stop ~> (wpc = "done")

\* C15 witness: the worker has ended with a text still in the queue.
C15_Witness == stop /\ wpc = "done" /\ queue # <<>>

(***************************************************************************)
(* Claims about the loops and the calls into the speech engine.            *)
(***************************************************************************)
\* C16: no line is fatal to the loop that handles it: whatever a complete
\* line holds, the loop is still running after it and no error of a line
\* has left the turn of the loop that handled it.
C16_NoLineIsFatal ==
    /\ alive
    /\ \A i \in DOMAIN handled : handled[i].ret # "raised"

\* C17: at most one call into the speech engine is in progress at any time,
\* and the calls start in the order in which the loop produced the
\* announcements, for speak_text as for SimpleTextToSpeech.
C17_OneCallInOrder ==
    /\ Cardinality({i \in DOMAIN speakThreads :
                        speakThreads[i].pc = "say"}) <= 1
    /\ \A i \in DOMAIN sayOrder : sayOrder[i] = i
    /\ IsPrefix(handed, enqueued)

\* The events by which the loop of run() is left.
ExitEvents == {"KeyboardInterrupt", "other exception"}

\* What run() and shutdown() did from the moment the loop was left.
SinceExit ==
    IF \E i \in DOMAIN runLog : runLog[i] \in ExitEvents
      THEN LET first == CHOOSE i \in DOMAIN runLog :
                          /\ runLog[i] \in ExitEvents
                          /\ \A j \in 1..(i - 1) : runLog[j] \notin ExitEvents
           IN  SubSeq(runLog, first + 1, Len(runLog))
      ELSE <<>>

\* C18: however the loop of run() is left, the way out is in this order: the
\* loop has stopped (no line is handled and nothing is enqueued any more),
\* then the mining data are saved exactly once, then the worker is signalled
\* to stop and joined; the worker is never signalled before the save.
C18_OrderlyShutdown ==
    /\ [](/\ IsPrefix(SinceExit, <<"stop_flag.set", "save", "join">>)
          /\ (rpc = "loop") <=> (\A i \in DOMAIN runLog :
                                    runLog[i] \notin ExitEvents)
          /\ rpc # "loop" => ppc = "idle" /\ lock # "loop"
          /\ stop => /\ rpc \in {"tts.stop", "exited"}
                     /\ Len(SinceExit) >= 2
          /\ rpc = "exited" => stop /\ Len(SinceExit) = 3)
    /\ [][rpc # "loop" => enqueued' = enqueued]_vars

\* C18 witness: the loop handled a line and made its periodic save, was left
\* by an exception other than KeyboardInterrupt while a text was queued, and
\* shutdown() has saved, signalled the worker and returned from the join
\* while a speech call was still in progress.
C18_Witness ==
    /\ rpc = "exited"
    /\ runLog = <<"line", "periodic save", "other exception",
                  "stop_flag.set", "save", "join">>
    /\ wpc = "say"
    /\ queue # <<>>

(***************************************************************************)
(* Claims about the lines forwarded and the cursor.                        *)
(***************************************************************************)
\* The lines of the bytes cs that are not empty once stripped, in order.
NonEmptyLines(cs) ==
    LET raw == ReadLines(cs)
    IN  SelectSeq([i \in DOMAIN raw |-> Strip(raw[i])],
                  LAMBDA l : l # <<>>)

\* C19: read_new_lines forwards every non-empty complete line appended to
\* the file it tails, exactly once and in file order; only empty lines are
\* discarded, and a line equal to the one forwarded before it is still
\* forwarded. For a call on the tracked file that starts, at or after the
\* place where tailing began, at the beginning of a line and reads complete
\* lines: it returns all of them that are not empty.
C19_EveryLineForwarded ==
    [][(/\ current_file' = current_file
        /\ current_file # NoPath
        /\ assistant_last_position >= tailStart
        /\ assistant_last_position' > assistant_last_position
        /\ fsData[current_file][assistant_last_position'] = "LF"
        /\ \/ assistant_last_position = 0
           \/ fsData[current_file][assistant_last_position] = "LF")
       => lines' = NonEmptyLines(SubSeq(fsData[current_file],
                                        assistant_last_position + 1,
                                        assistant_last_position'))]_vars

C21_NothingNewChangesNothing ==
    [][(/\ tpc = "read"
        /\ tpc' = "find"
        /\ current_journal_path # NoPath
        /\ fsExists[current_journal_path]
        /\ Len(fsData[current_journal_path]) <= tracker_last_position)
       => /\ entries' = <<>>
          /\ UNCHANGED <<current_journal_path, tracker_last_position,
                         tracker_last_line>>]_vars

\* C21 witness: the tracker holds a fragment from an earlier read, and its
\* last read found nothing new in the file.
C21_Witness ==
    /\ lastRead = "nothing new"
    /\ tpc = "find"
    /\ tracker_last_line # <<>>
    /\ tracker_last_position = Len(fsData[current_journal_path])
    /\ tracker_last_position > 0

\* C22: when the newest file is the one already tracked, resolving it changes
\* no cursor state. In find_latest_journal the path, the offset and the
\* fragment keep their values. In read_new_lines the path is kept and the
\* read starts at the offset the last call left: what the call returns is
\* what the file holds from that offset on.
C22_SamePathChangesNothing ==
    /\ [][(/\ tpc = "find"
            /\ tpc' = "read"
            /\ current_journal_path' = current_journal_path)
           => UNCHANGED <<tracker_last_position, tracker_last_line>>]_vars
    /\ [][(/\ current_file' = current_file
            /\ assistant_last_position' # assistant_last_position)
           => /\ tailStart' = tailStart
              /\ lines' = FilterFrom(
                     ReadLines(Decode(SubSeq(fsData[current_file],
                                             assistant_last_position + 1,
                                             assistant_last_position'))),
                     assistant_last_line, <<>>, <<>>)[1]]_vars

\* C22 witness: both readers have resolved the file they already tracked,
\* with an offset beyond its beginning; the tracker is about to read on from
\* its offset and a fragment, and the assistant has returned a line it read
\* from its offset on.
C22_Witness ==
    /\ tpc = "read"
    /\ current_journal_path # NoPath
    /\ tracker_last_position > 0
    /\ tracker_last_line # <<>>
    /\ current_file = current_journal_path
    /\ tailStart = 0
    /\ assistant_last_position = 2
    /\ lines = <<<<"a">>>>

(***************************************************************************)
(* Claims about the periodic save and the directory.                       *)
(***************************************************************************)
\* C23: while the loop of run() is running, whenever the save interval has
\* passed since the last save, the mining data are saved on a later tick,
\* also when no new lines arrive.
C23_DueSaveHappens == saveDue ~> ~saveDue

\* A tick on which no journal can be resolved: it changes no cursor state of
\* either reader, forwards nothing, and leaves the tracker's loop at its
\* next call of find_latest_journal() once it has got there.
IdleTickChangesNothing ==
    [][(Existing = {} /\ UNCHANGED fsVars)
        => /\ UNCHANGED <<current_journal_path, tracker_last_position,
                          tracker_last_line, trackerLines>>
           /\ UNCHANGED <<current_file, assistant_last_position,
                          assistant_last_line>>
           /\ lines' \in {lines, <<>>}
           /\ tpc' \in {tpc, "find"}]_vars

\* A tick on which a journal is resolved tracks a newest journal, and the
\* tracker goes on to read it.
ResolvedTickTails ==
    [][/\ (tpc = "find" /\ tpc' = "read") => current_journal_path' \in LatestSet
       /\ current_file' # current_file => current_file' \in LatestSet]_vars

\* A read of the tracked journal that did not fail has consumed every byte
\* the journal holds: nothing appended is left behind the offset.
TailingConsumesAppended ==
    [][(/\ tpc = "read" /\ tpc' = "find"
        /\ lastRead' \in {"data", "nothing new"}
        /\ fsData[current_journal_path] # <<>>)
        => tracker_last_position' = Len(fsData[current_journal_path])]_vars

\* C24: with no resolvable journal the loops stay idle without changing any
\* cursor state; once a journal exists they tail it and what is appended
\* afterwards is read and forwarded; when the tailed journal disappears
\* they are idle again and keep running.
C24_IdleTailing ==
    /\ IdleTickChangesNothing
    /\ ResolvedTickTails
    /\ TailingConsumesAppended

\* The order of file names: f comes before g or is g.
NameBefore(f, g) == f = g \/ (f = "Journal.1.log" /\ g = "Journal.2.log")

\* The journal a reader resolves has the newest modification time.
ResolvedIsNewest ==
    [][/\ (tpc = "find" /\ tpc' = "read")
            => \A g \in Existing :
                   fsMtime[g] <= fsMtime[current_journal_path']
       /\ current_file' # current_file
            => \A g \in Existing : fsMtime[g] <= fsMtime[current_file']]_vars

\* Among the journals that share the newest modification time a reader
\* resolves the one whose name comes first, whatever the listing order.
TieBrokenByName ==
    [][/\ (tpc = "find" /\ tpc' = "read")
            => \A g \in LatestSet : NameBefore(current_journal_path', g)
       /\ current_file' # current_file
            => \A g \in LatestSet : NameBefore(current_file', g)]_vars

\* C25: find_latest_journal returns a journal whose modification time is
\* maximal, and among several such journals always the same one, chosen by
\* file name and not by the order of the directory listing.
C25_DeterministicLatest == ResolvedIsNewest /\ TieBrokenByName

(***************************************************************************)
(* Claims about the queue of SimpleTextToSpeech at and after stop().       *)
(***************************************************************************)
\* C26: after stop() has set the stop event the worker starts at most one
\* further speech call, for the text it may pop after its last test of the
\* event; once it has ended, what is left in the queue is never spoken.
C26_AtMostOneAfterStop ==
    /\ [](stop => Len(handed) <= handedAtStop + 1)
    /\ [][wpc = "done" => (wpc' = "done" /\ handed' = handed)]_vars

\* C26 witness: the worker has ended after stop(), having started exactly
\* one speech call since, and texts are left in the queue.
C26_Witness ==
    /\ stop
    /\ wpc = "done"
    /\ Len(handed) = handedAtStop + 1
    /\ queue # <<>>

\* The text the worker has popped and not yet passed to the speech call.
InHand == IF wpc = "if" /\ text # NoText THEN <<text>> ELSE <<>>

\* C27 as stated: in every state the number of texts enqueued is the number
\* still in the queue plus the number handed to the speech engine.
C27_CountsBalance == Len(enqueued) = Len(queue) + Len(handed)

\* C27: conservation of announcements under every interleaving: the texts
\* enqueued are, in order, those handed to the speech engine, then the one
\* the worker has popped and is about to hand over, then those still in the
\* queue; nothing is lost or handed over twice, and while stop() is not
\* called every enqueued text is eventually handed over.
C27_Conservation ==
    /\ [](enqueued = handed \o InHand \o queue)
    /\ \A k \in 1..MaxEnqueued :
           (Len(enqueued) = k) ~> (stop \/ Len(handed) >= k)

\* C27 witness: the worker holds a popped text between the pop and the
\* speech call, with texts handed over before it and texts waiting behind.
C27_Witness ==
    /\ wpc = "if"
    /\ text # NoText
    /\ handed # <<>>
    /\ queue # <<>>

=============================================================================
